---- MODULE Spec2Model ----
(***************************************************************************)
(* Model of package red (src/red.go): a RESP command-dispatch server with *)
(* MULTI/EXEC transactions.  One worker (HandleConn) per connection, a     *)
(* registry of handlers, and one server-wide mutex around EXEC batches.    *)
(*                                                                         *)
(* Strings are sequences of fragments.  A command name or an argument sent *)
(* by a client is a sequence of one-character fragments, so that           *)
(* strings.ToLower and the CR/LF replacement act on it; a string literal   *)
(* of the source is one opaque fragment.                                   *)
(***************************************************************************)
EXTENDS Integers, Sequences, FiniteSets, TLC

\* ------------------------------------------------------------- bounds
MaxReqs == 5         \* frames one connection reads (Spec)
MaxQueue == 2        \* requests queued in one transaction
MaxConcReqs == 7     \* frames read by all connections together (ConcSpec)
MaxValReqs == 4      \* frames the connection reads (ValSpec)
MaxRegs == 2         \* Handle calls before serving (RegSpec)
MaxRegReqs == 3      \* frames the connection reads (RegSpec)
MaxServeReqs == 5    \* frames read by all connections together (ServeSpec)

\* Two connections: every property of the server about connections is about a
\* worker and any other worker.
Conns == {"c1", "c2"}

VARIABLES
    handlers,   \* Server.handlers: lowercased name -> handler
    handled,    \* the last Handle call: its number, arguments, and whether it panicked
    mu,         \* Server.mu: "free" when unlocked, else the connection holding it
    listening,  \* Serve's accept loop is running
    serveRet,   \* what Serve returned
    pc,         \* per worker: position in HandleConn
    inTx,       \* per worker: inside a transaction
    errTx,      \* per worker: the transaction has seen an error
    tx,         \* per worker: queued requests
    idx,        \* per worker: position of the range loop over tx
    txReplies,  \* per worker: replies collected by the batch
    ret,        \* per worker: what HandleConn returned
    req,        \* per worker: result of the last DecodeRequest
    out,        \* per worker: last resp.Encode call (request number, value, result)
    nread,      \* per worker: frames decoded (requests and malformed frames)
    nenc,       \* per worker: resp.Encode calls
    wfail,      \* per worker: some resp.Encode call has failed
    ncalls,     \* per worker: handler invocations (standalone, batch)
    lastCall,   \* per worker: Request passed to the last handler invocation
    nplain,     \* per worker: non-transactional requests for registered commands read
    sent        \* per worker: requests for registered commands received inside the
                \* current (or else the latest) transaction

vars == <<handlers, handled, serveRet, mu, listening, pc, inTx, errTx, tx, idx, txReplies, ret,
          req,          out, nread, nenc, wfail, ncalls, lastCall, nplain, sent>>

\* ------------------------------------------------------------- strings
Upper == <<"A","B","C","D","E","F","G","H","I","J","K","L","M",
           "N","O","P","Q","R","S","T","U","V","W","X","Y","Z">>
Lower == <<"a","b","c","d","e","f","g","h","i","j","k","l","m",
           "n","o","p","q","r","s","t","u","v","w","x","y","z">>

LowerTable == [i \in DOMAIN Upper |-> Lower[i]]
UpperSet == {Upper[i] : i \in DOMAIN Upper}
UpperIndex == [ch \in UpperSet |-> CHOOSE i \in DOMAIN Upper : Upper[i] = ch]

LowerChar(ch) == IF ch \in UpperSet THEN LowerTable[UpperIndex[ch]] ELSE ch

ToLower(s) == [i \in DOMAIN s |-> LowerChar(s[i])]

ContainsCRLF(s) == \E i \in DOMAIN s : s[i] \in {"\r", "\n"}

\* Mutant: only carriage returns are replaced.
ReplaceCROnly(s) == [i \in DOMAIN s |-> IF s[i] = "\r" THEN " " ELSE s[i]]

ReplaceCRLF(s) == [i \in DOMAIN s |-> IF s[i] \in {"\r", "\n"} THEN " " ELSE s[i]]

\* ------------------------------------------------------------- values
Value(k, t, es) == [kind |-> k, text |-> t, elems |-> es]
Error(t) == Value("Error", t, <<>>)
SimpleString(t) == Value("SimpleString", t, <<>>)
GoString(t) == Value("string", t, <<>>)
Array(es) == Value("Array", <<>>, es)
OK == SimpleString(<<"OK">>)
NoValue == Value("none", <<>>, <<>>)
Stalled == Value("stalled", <<>>, <<>>)

Request(name, args) == [Name |-> name, Args |-> args]
NoRequest == Request(<<>>, <<>>)

errNoCmd(name) == Error(<<"ERR unknown command '">> \o name \o <<"'">>)

errWrongArgs(name) ==
    Error(<<"ERR wrong number of arguments for '">> \o name \o <<"' command">>)

NoError == [id |-> "nil", text |-> <<>>]
ErrWrongArgs == [id |-> "ErrWrongArgs", text |-> <<"wrong number of arguments">>]

\* ------------------------------------------------------------- handlers
\* HandlerFunc outcomes: a value, an error, or no return at all.
Returns(v) == [stall |-> FALSE, v |-> v, err |-> NoError]
Fails(e) == [stall |-> FALSE, v |-> NoValue, err |-> e]
NeverReturns == [stall |-> TRUE, v |-> NoValue, err |-> NoError]

\* The ping handler of TestServerStats.
hPing(r) ==
    IF Len(r.Args) > 0 THEN Returns(GoString(r.Args[1])) ELSE Returns(GoString(<<"PONG">>))

\* A handler that checks its argument count and otherwise fails with a text
\* holding a line terminator.
hGet(r) ==
    IF Len(r.Args) # 1
    THEN Fails(ErrWrongArgs)
    ELSE Fails([id |-> "other", text |-> <<"no key ">> \o r.Args[1] \o <<"\r", "\n", "try later">>])

\* A handler that never returns.
hStall(r) == NeverReturns

\* A handler that fails with its first argument as the error text, and without
\* arguments with a new error whose text is that of ErrWrongArgs.
hErr(r) ==
    IF Len(r.Args) = 0
    THEN Fails([id |-> "other", text |-> <<"wrong number of arguments">>])
    ELSE Fails([id |-> "other", text |-> r.Args[1]])

HandlerFunc(h, r) ==
    CASE h = "hPing" -> hPing(r)
      [] h = "hGet" -> hGet(r)
      [] h = "hStall" -> hStall(r)
      [] h = "hErr" -> hErr(r)

EmptyRegistry == [n \in {} |-> "nil"]

\* Mutant: the handler is stored under the name as given.
HandleRawName(reg, name, h) ==
    IF name = <<>> \/ h = "nil"
    THEN reg
    ELSE [n \in (DOMAIN reg) \cup {name} |-> IF n = name THEN h ELSE reg[n]]

\* Server.Handle panics on an empty name and on a nil handler.
HandlePanics(name, h) == name = <<>> \/ h = "nil"

NoHandle == [n |-> 0, name |-> <<>>, h |-> "nil", panic |-> FALSE]

\* Server.Handle: a panic leaves the registry as it was.
Handle(reg, name, h) ==
    IF name = <<>> \/ h = "nil"
    THEN reg
    ELSE [n \in (DOMAIN reg) \cup {ToLower(name)} |->
            IF n = ToLower(name) THEN h ELSE reg[n]]

\* The registrations made before serving.
Registered ==
    Handle(Handle(Handle(EmptyRegistry,
        <<"P","I","N","G">>, "hPing"),
        <<"g","e","t">>, "hGet"),
        <<"s","t","a","l","l">>, "hStall")

\* The registrations of ValSpec: one more handler, registered in mixed case.
ValRegistered == Handle(Registered, <<"E","r","r">>, "hErr")

singleVal(h, r) ==
    LET res == HandlerFunc(h, r) IN
    IF res.stall THEN Stalled
    ELSE IF res.err # NoError
    THEN IF res.err = ErrWrongArgs
         THEN errWrongArgs(r.Name)
         ELSE LET text == IF ContainsCRLF(res.err.text)
                          THEN ReplaceCRLF(res.err.text)
                          ELSE res.err.text
              IN Error(<<"ERR ">> \o text)
    ELSE res.v

\* ------------------------------------------------------------- frames
\* resp.DecodeRequest outcomes: a request, a malformed frame, EOF, an I/O error.
Decoded(toks) == [err |-> "nil", toks |-> toks]
Malformed == [err |-> "ErrInvalidRequest", toks |-> <<>>]
Eof == [err |-> "EOF", toks |-> <<>>]
IOErr == [err |-> "ioerr", toks |-> <<>>]
NoFrame == [err |-> "none", toks |-> <<>>]

fPING == << <<"P","I","N","G">> >>
fPingA == << <<"P","i","n","g">>, <<"a">> >>
fGet == << <<"g","e","t">> >>
fGetK == << <<"G","E","T">>, <<"k">> >>
fStall == << <<"s","t","a","l","l">> >>
fMulti == << <<"M","U","L","T","I">> >>
fMultiX == << <<"m","u","l","t","i">>, <<"x">> >>
fExec == << <<"E","x","e","c">> >>
fExecX == << <<"E","X","E","C">>, <<"x">> >>
fQuit == << <<"Q","U","I","T">> >>
fNope == << <<"N","O","\r","\n">>, <<"a">> >>

fErr == << <<"e","r","r">> >>
fErrPlain == << <<"e","r","r">>, <<"x","y">> >>
fErrCR == << <<"E","R","R">>, <<"a","\r","b">> >>
fErrLF == << <<"e","r","r">>, <<"\n">> >>
fErrCRLF == << <<"e","r","r">>, <<"a","\r","\n","b","\n">> >>

Frames == {fPING, fPingA, fGet, fGetK, fStall, fMulti, fMultiX, fExec, fExecX, fQuit, fNope}
Decodes == {Decoded(f) : f \in Frames} \cup {Malformed, Eof, IOErr}

ConcFrames == {fPING, fStall, fMulti, fExec, fQuit}
ConcDecodes == {Decoded(f) : f \in ConcFrames}

ValFrames == {fPING, fPingA, fGet, fGetK, fErr, fErrPlain, fErrCR, fErrLF, fErrCRLF,
              fMulti, fExec}
ValDecodes == {Decoded(f) : f \in ValFrames}

RegFrames == {fPING, fPingA, fGet, fGetK, fMulti, fExec}
RegDecodes == {Decoded(f) : f \in RegFrames}
RegNames == {<<"P","I","N","G">>, <<"p","i","n","g">>, <<"G","e","t">>, <<>>}
RegHandlers == {"hPing", "hErr", "nil"}

ServeDecodes == {Decoded(f) : f \in {fPING, fMulti, fExec, fQuit}} \cup {Malformed, Eof, IOErr}

cmdQuit == <<"q","u","i","t">>
cmdMulti == <<"m","u","l","t","i">>
cmdExec == <<"e","x","e","c">>

\* ------------------------------------------------------------- HandleConn
\* What one pass of the loop body decides for worker c: where it goes next, the
\* transaction variables, the value handed to resp.Encode (enc) and the handler
\* invocation made (call).
Keep(c) ==
    [pc |-> "read", inTx |-> inTx[c], errTx |-> errTx[c], tx |-> tx[c],
     enc |-> FALSE, val |-> NoValue, call |-> FALSE, creq |-> NoRequest,
     ret |-> "none"]

Reply(st, v) == [st EXCEPT !.enc = TRUE, !.val = v]

\* if inTx { errTx = true }
Poison(c, st) == [st EXCEPT !.errTx = IF inTx[c] THEN TRUE ELSE @]

\* return err / return nil, and the deferred conn.Close()
Return(c, e) == [Keep(c) EXCEPT !.pc = "closed", !.ret = e]

\* Mutant: a malformed frame counts as an error of the transaction.
OnMalformedPoison(c) == Reply(Poison(c, Keep(c)), Error(<<"ERR unknown command">>))

\* Mutant: a malformed frame is dropped without a reply.
OnMalformedSilent(c) == Keep(c)

OnMalformed(c) == Reply(Keep(c), Error(<<"ERR unknown command">>))

\* Mutant: MULTI does not look at its arguments.
OnMultiAnyArgs(c, toks, cmd) ==
    IF inTx[c]
    THEN Reply([Keep(c) EXCEPT !.errTx = TRUE],
               Error(<<"ERR MULTI calls can not be nested">>))
    ELSE Reply([Keep(c) EXCEPT !.inTx = TRUE, !.errTx = FALSE], OK)

\* Mutant: a MULTI inside a transaction starts the transaction afresh.
OnMultiRestart(c, toks, cmd) ==
    IF Len(toks) # 1
    THEN Reply(Poison(c, Keep(c)), errWrongArgs(cmd))
    ELSE IF inTx[c]
    THEN Reply([Keep(c) EXCEPT !.errTx = FALSE],
               Error(<<"ERR MULTI calls can not be nested">>))
    ELSE Reply([Keep(c) EXCEPT !.inTx = TRUE, !.errTx = FALSE], OK)

OnMulti(c, toks, cmd) ==
    IF Len(toks) # 1
    THEN Reply(Poison(c, Keep(c)), errWrongArgs(cmd))
    ELSE IF inTx[c]
    THEN Reply([Keep(c) EXCEPT !.errTx = TRUE],
               Error(<<"ERR MULTI calls can not be nested">>))
    ELSE Reply([Keep(c) EXCEPT !.inTx = TRUE, !.errTx = FALSE], OK)

\* Mutant: the abort leaves the queue as it is.
OnExecAbortKeepsQueue(c, toks, cmd) ==
    IF Len(toks) # 1
    THEN Reply(Poison(c, Keep(c)), errWrongArgs(cmd))
    ELSE IF ~inTx[c]
    THEN Reply(Keep(c), Error(<<"ERR EXEC without MULTI">>))
    ELSE IF errTx[c]
    THEN Reply([Keep(c) EXCEPT !.inTx = FALSE, !.errTx = FALSE],
               Error(<<"EXECABORT Transaction discarded because of previous errors.">>))
    ELSE [Keep(c) EXCEPT !.pc = "lock"]

\* Mutant: EXEC tests inTx before its argument count.
OnExecStateFirst(c, toks, cmd) ==
    IF ~inTx[c]
    THEN Reply(Keep(c), Error(<<"ERR EXEC without MULTI">>))
    ELSE IF Len(toks) # 1
    THEN Reply(Poison(c, Keep(c)), errWrongArgs(cmd))
    ELSE IF errTx[c]
    THEN Reply([Keep(c) EXCEPT !.inTx = FALSE, !.errTx = FALSE, !.tx = <<>>],
               Error(<<"EXECABORT Transaction discarded because of previous errors.">>))
    ELSE [Keep(c) EXCEPT !.pc = "lock"]

\* Mutant: EXEC does not test errTx and runs a poisoned transaction.
OnExecNoAbort(c, toks, cmd) ==
    IF Len(toks) # 1
    THEN Reply(Poison(c, Keep(c)), errWrongArgs(cmd))
    ELSE IF ~inTx[c]
    THEN Reply(Keep(c), Error(<<"ERR EXEC without MULTI">>))
    ELSE [Keep(c) EXCEPT !.pc = "lock"]

OnExec(c, toks, cmd) ==
    IF Len(toks) # 1
    THEN Reply(Poison(c, Keep(c)), errWrongArgs(cmd))
    ELSE IF ~inTx[c]
    THEN Reply(Keep(c), Error(<<"ERR EXEC without MULTI">>))
    ELSE IF errTx[c]
    THEN Reply([Keep(c) EXCEPT !.inTx = FALSE, !.errTx = FALSE, !.tx = <<>>],
               Error(<<"EXECABORT Transaction discarded because of previous errors.">>))
    ELSE [Keep(c) EXCEPT !.pc = "lock"]

\* Mutant: the command name is passed on as the client sent it.
NewRequestRaw(cmd, toks) == Request(toks[1], Tail(toks))

\* Request{Name: cmd, Args: req[1:]}
NewRequest(cmd, toks) == Request(cmd, Tail(toks))

\* Mutant: the request is queued whatever the transaction has seen.
EnqueueAlways(c, r) == Append(tx[c], r)

\* Mutant: the request is put at the head of the queue.
EnqueueFront(c, r) == IF ~errTx[c] THEN <<r>> \o tx[c] ELSE tx[c]

\* if !errTx { tx = append(tx, ...) }
Enqueue(c, r) == IF ~errTx[c] THEN Append(tx[c], r) ELSE tx[c]

\* resp.Encode(conn, singleVal(h, Request{...})) outside a transaction
Standalone(c, h, r) ==
    LET v == singleVal(h, r) IN
    IF v = Stalled
    THEN [Keep(c) EXCEPT !.pc = "stalled", !.call = TRUE, !.creq = r]
    ELSE [Reply(Keep(c), v) EXCEPT !.call = TRUE, !.creq = r]

\* Mutant: the handler is invoked when its request is queued.
OnCommandEager(c, toks, cmd) ==
    IF cmd \notin DOMAIN handlers
    THEN Reply(Poison(c, Keep(c)), errNoCmd(cmd))
    ELSE IF inTx[c]
    THEN [Reply([Keep(c) EXCEPT !.tx = Enqueue(c, NewRequest(cmd, toks))],
                SimpleString(<<"QUEUED">>))
            EXCEPT !.call = TRUE, !.creq = NewRequest(cmd, toks)]
    ELSE Standalone(c, handlers[cmd], NewRequest(cmd, toks))

OnCommand(c, toks, cmd) ==
    IF cmd \notin DOMAIN handlers
    THEN Reply(Poison(c, Keep(c)), errNoCmd(cmd))
    ELSE IF inTx[c]
    THEN Reply([Keep(c) EXCEPT !.tx = Enqueue(c, NewRequest(cmd, toks))],
               SimpleString(<<"QUEUED">>))
    ELSE Standalone(c, handlers[cmd], NewRequest(cmd, toks))

\* Mutant: QUIT is answered OK before the loop ends.
DispatchQuitReplies(c, toks) ==
    LET cmd == ToLower(toks[1]) IN
    CASE cmd = cmdQuit -> Reply(Return(c, "nil"), OK)
      [] cmd = cmdMulti -> OnMulti(c, toks, cmd)
      [] cmd = cmdExec -> OnExec(c, toks, cmd)
      [] OTHER -> OnCommand(c, toks, cmd)

Dispatch(c, toks) ==
    LET cmd == ToLower(toks[1]) IN
    CASE cmd = cmdQuit -> Return(c, "nil")
      [] cmd = cmdMulti -> OnMulti(c, toks, cmd)
      [] cmd = cmdExec -> OnExec(c, toks, cmd)
      [] OTHER -> OnCommand(c, toks, cmd)

LoopBody(c, d) ==
    CASE d.err = "nil" -> Dispatch(c, d.toks)
      [] d.err = "ErrInvalidRequest" -> OnMalformed(c)
      [] OTHER -> Return(c, d.err)

\* var err error, declared before the loop and tested at its top.  The loop body's
\* req, err := resp.DecodeRequest(rd) declares a new err, and every later
\* err = resp.Encode(...) assigns that inner one: the outer err stays nil.
outerErr(c) == "nil"

IsControl(cmd) == cmd \in {cmdQuit, cmdMulti, cmdExec}

\* The frame names a registered command that is not handled by the loop itself.
NamesRegistered(d) ==
    /\ d.err = "nil"
    /\ ~IsControl(ToLower(d.toks[1]))
    /\ ToLower(d.toks[1]) \in DOMAIN handlers

RECURSIVE SumOver(_, _)
SumOver(f, S) ==
    IF S = {} THEN 0
    ELSE LET x == CHOOSE y \in S : TRUE IN f[x] + SumOver(f, S \ {x})
TotalRead == SumOver(nread, Conns)

\* One pass of the loop body of worker c: the test of err, DecodeRequest giving d,
\* the dispatch, and resp.Encode succeeding (ok) or failing.
ReadFrame(c, d, ok) ==
    /\ pc[c] = "read"
    /\ inTx[c] /\ ~errTx[c] /\ Len(tx[c]) >= MaxQueue => ~NamesRegistered(d)
    /\ \E top \in {outerErr(c) # "nil"} :
       \E st \in {IF top THEN Return(c, outerErr(c)) ELSE LoopBody(c, d)} :
       \E named \in {~top /\ NamesRegistered(d)} :
       \E n \in {IF ~top /\ d.err \in {"nil", "ErrInvalidRequest"}
                 THEN nread[c] + 1 ELSE nread[c]} :
       /\ pc' = [pc EXCEPT ![c] = st.pc]
       /\ inTx' = [inTx EXCEPT ![c] = st.inTx]
       /\ errTx' = [errTx EXCEPT ![c] = st.errTx]
       /\ tx' = [tx EXCEPT ![c] = st.tx]
       /\ ret' = [ret EXCEPT ![c] = st.ret]
       /\ req' = [req EXCEPT ![c] = IF top THEN @ ELSE d]
       /\ nread' = [nread EXCEPT ![c] = n]
       /\ nenc' = [nenc EXCEPT ![c] = IF st.enc THEN @ + 1 ELSE @]
       /\ out' = [out EXCEPT ![c] =
                    IF st.enc THEN [req |-> n, val |-> st.val, ok |-> ok] ELSE @]
       /\ wfail' = [wfail EXCEPT ![c] = @ \/ (st.enc /\ ~ok)]
       /\ ncalls' = [ncalls EXCEPT ![c].plain = IF st.call THEN @ + 1 ELSE @]
       /\ lastCall' = [lastCall EXCEPT ![c] = IF st.call THEN st.creq ELSE @]
       /\ nplain' = [nplain EXCEPT ![c] =
                       IF named /\ ~inTx[c] THEN @ + 1 ELSE @]
       /\ sent' = [sent EXCEPT ![c] =
                     IF top \/ d.err # "nil" THEN @
                     ELSE IF named /\ inTx[c] THEN Append(@, d.toks)
                     ELSE IF ~inTx[c] /\ st.inTx THEN <<>>
                     ELSE @]
    /\ UNCHANGED <<handlers, handled, serveRet, mu, listening, idx, txReplies>>

\* Mutant: Lock never waits (no mutual exclusion).
MutexAlwaysFree(c) == TRUE

\* Mutant: one mutex per connection instead of one per server.
MutexPerConn(c) == mu # c

\* s.mu.Lock(), and txReplies := make(resp.Array, 0, len(tx)) before it
MutexFree(c) == mu = "free"

Lock(c) ==
    /\ pc[c] = "lock"
    /\ MutexFree(c)
    /\ mu' = c
    /\ pc' = [pc EXCEPT ![c] = "batch"]
    /\ idx' = [idx EXCEPT ![c] = 1]
    /\ txReplies' = [txReplies EXCEPT ![c] = <<>>]
    /\ UNCHANGED <<handlers, handled, serveRet, listening, inTx, errTx, tx, ret, req, out, nread, nenc,
                   wfail, ncalls, lastCall, nplain, sent>>

\* One iteration of  for _, r := range tx
BatchElement(r) ==
    IF r.Name \notin DOMAIN handlers
    THEN [call |-> FALSE, val |-> errNoCmd(r.Name)]
    ELSE [call |-> TRUE, val |-> singleVal(handlers[r.Name], r)]

BatchStep(c) ==
    /\ pc[c] = "batch"
    /\ idx[c] <= Len(tx[c])
    /\ \E r \in {tx[c][idx[c]]} :
       \E e \in {BatchElement(r)} :
       /\ IF e.val = Stalled
          THEN /\ pc' = [pc EXCEPT ![c] = "stalled"]
               /\ UNCHANGED <<idx, txReplies>>
          ELSE /\ txReplies' = [txReplies EXCEPT ![c] = Append(@, e.val)]
               /\ idx' = [idx EXCEPT ![c] = @ + 1]
               /\ UNCHANGED pc
       /\ ncalls' = [ncalls EXCEPT ![c].batch = IF e.call THEN @ + 1 ELSE @]
       /\ lastCall' = [lastCall EXCEPT ![c] = IF e.call THEN r ELSE @]
    /\ UNCHANGED <<handlers, handled, serveRet, mu, listening, inTx, errTx, tx, ret, req, out, nread,
                   nenc, wfail, nplain, sent>>

\* Mutant: the mutex is still held when the batch reply is written.
UnlockLate(c) ==
    /\ pc[c] = "batch"
    /\ idx[c] > Len(tx[c])
    /\ pc' = [pc EXCEPT ![c] = "reply"]
    /\ UNCHANGED <<handlers, handled, serveRet, mu, listening, inTx, errTx, tx, idx,
                   txReplies, ret, req, out, nread, nenc, wfail, ncalls, lastCall,
                   nplain, sent>>

\* s.mu.Unlock() after the range loop
Unlock(c) ==
    /\ pc[c] = "batch"
    /\ idx[c] > Len(tx[c])
    /\ mu' = "free"
    /\ pc' = [pc EXCEPT ![c] = "reply"]
    /\ UNCHANGED <<handlers, handled, serveRet, listening, inTx, errTx, tx, idx, txReplies, ret, req, out,
                   nread, nenc, wfail, ncalls, lastCall, nplain, sent>>

\* inTx, errTx = false, false; tx = tx[:0]; err = resp.Encode(conn, txReplies)
BatchReply(c, ok) ==
    /\ pc[c] = "reply"
    /\ pc' = [pc EXCEPT ![c] = "read"]
    /\ inTx' = [inTx EXCEPT ![c] = FALSE]
    /\ errTx' = [errTx EXCEPT ![c] = FALSE]
    /\ tx' = [tx EXCEPT ![c] = <<>>]
    /\ nenc' = [nenc EXCEPT ![c] = @ + 1]
    /\ out' = [out EXCEPT ![c] = [req |-> nread[c], val |-> Array(txReplies[c]), ok |-> ok]]
    /\ wfail' = [wfail EXCEPT ![c] = @ \/ ~ok]
    /\ idx' = [idx EXCEPT ![c] = 0]
    /\ txReplies' = [txReplies EXCEPT ![c] = <<>>]
    /\ UNCHANGED <<handlers, handled, serveRet, mu, listening, ret, req, nread, ncalls, lastCall, nplain,
                   sent>>

\* Mutant: the accept loop waits for the worker it started.
CanAcceptSerial(c) ==
    listening /\ pc[c] = "none" /\ \A d \in Conns : pc[d] \in {"none", "closed"}

\* The accept loop is at l.Accept() whenever Serve has not returned: the worker
\* runs in its own goroutine.
CanAccept(c) == listening /\ pc[c] = "none"

\* Serve: l.Accept() fails; Serve returns the error and closes the listener.
AcceptFail ==
    /\ listening
    /\ listening' = FALSE
    /\ serveRet' = "accepterr"
    /\ UNCHANGED <<handlers, handled, mu, pc, inTx, errTx, tx, idx, txReplies, ret, req,
                   out, nread, nenc, wfail, ncalls, lastCall, nplain, sent>>

\* Serve: conn, err := l.Accept(); go s.HandleConn(conn)
Accept(c) ==
    /\ CanAccept(c)
    /\ pc' = [pc EXCEPT ![c] = "read"]
    /\ UNCHANGED <<handlers, handled, serveRet, mu, listening, inTx, errTx, tx, idx, txReplies, ret, req,
                   out, nread, nenc, wfail, ncalls, lastCall, nplain, sent>>

\* ------------------------------------------------------------- specifications
NoOut == [req |-> 0, val |-> NoValue, ok |-> TRUE]

InitState ==
    /\ serveRet = "none"
    /\ handled = NoHandle
    /\ mu = "free"
    /\ inTx = [c \in Conns |-> FALSE]
    /\ errTx = [c \in Conns |-> FALSE]
    /\ tx = [c \in Conns |-> <<>>]
    /\ idx = [c \in Conns |-> 0]
    /\ txReplies = [c \in Conns |-> <<>>]
    /\ ret = [c \in Conns |-> "none"]
    /\ req = [c \in Conns |-> NoFrame]
    /\ out = [c \in Conns |-> NoOut]
    /\ nread = [c \in Conns |-> 0]
    /\ nenc = [c \in Conns |-> 0]
    /\ wfail = [c \in Conns |-> FALSE]
    /\ ncalls = [c \in Conns |-> [plain |-> 0, batch |-> 0]]
    /\ lastCall = [c \in Conns |-> NoRequest]
    /\ nplain = [c \in Conns |-> 0]
    /\ sent = [c \in Conns |-> <<>>]

InitWorkers ==
    /\ handlers = Registered
    /\ InitState

\* HandleConn called on one connection.
Init ==
    /\ InitWorkers
    /\ listening = FALSE
    /\ pc = [c \in Conns |-> IF c = "c1" THEN "read" ELSE "none"]

SeqRead ==
    \E d \in Decodes, ok \in BOOLEAN : nread["c1"] < MaxReqs /\ ReadFrame("c1", d, ok)
SeqReply == \E ok \in BOOLEAN : BatchReply("c1", ok)

Next ==
    \/ SeqRead
    \/ Lock("c1")
    \/ BatchStep("c1")
    \/ Unlock("c1")
    \/ SeqReply

Spec == Init /\ [][Next]_vars

\* HandleConn called on one connection of a server with the registrations of
\* ValRegistered; every write succeeds.
ValInit ==
    /\ handlers = ValRegistered
    /\ InitState
    /\ listening = FALSE
    /\ pc = [c \in Conns |-> IF c = "c1" THEN "read" ELSE "none"]

ValRead == \E d \in ValDecodes : nread["c1"] < MaxValReqs /\ ReadFrame("c1", d, TRUE)

ValNext ==
    \/ ValRead
    \/ Lock("c1")
    \/ BatchStep("c1")
    \/ Unlock("c1")
    \/ BatchReply("c1", TRUE)

ValSpec == ValInit /\ [][ValNext]_vars

\* Handle called on a new server, which then serves one connection; every write
\* succeeds.
Register(name, h) ==
    /\ \A c \in Conns : pc[c] = "none"
    /\ handled.n < MaxRegs
    /\ handlers' = Handle(handlers, name, h)
    /\ handled' = [n |-> handled.n + 1, name |-> name, h |-> h,
                   panic |-> HandlePanics(name, h)]
    /\ UNCHANGED <<serveRet, mu, listening, pc, inTx, errTx, tx, idx, txReplies, ret, req,
                   out, nread, nenc, wfail, ncalls, lastCall, nplain, sent>>

RegInit ==
    /\ handlers = EmptyRegistry
    /\ InitState
    /\ listening = TRUE
    /\ pc = [c \in Conns |-> "none"]

RegRead == \E d \in RegDecodes : nread["c1"] < MaxRegReqs /\ ReadFrame("c1", d, TRUE)

RegNext ==
    \/ \E name \in RegNames, h \in RegHandlers : Register(name, h)
    \/ Accept("c1")
    \/ RegRead
    \/ Lock("c1")
    \/ BatchStep("c1")
    \/ Unlock("c1")
    \/ BatchReply("c1", TRUE)

RegSpec == RegInit /\ [][RegNext]_vars

\* Serve handing each accepted connection to its own worker.
ConcInit ==
    /\ InitWorkers
    /\ listening = TRUE
    /\ pc = [c \in Conns |-> "none"]

ConcRead(c) == \E d \in ConcDecodes : TotalRead < MaxConcReqs /\ ReadFrame(c, d, TRUE)

ConcNext ==
    \E c \in Conns :
        \/ Accept(c)
        \/ ConcRead(c)
        \/ Lock(c)
        \/ BatchStep(c)
        \/ Unlock(c)
        \/ BatchReply(c, TRUE)

ConcSpec == ConcInit /\ [][ConcNext]_vars

\* Serve with a listener that may fail and connections that may break.
ServeRead(c) == \E d \in ServeDecodes : TotalRead < MaxServeReqs /\ ReadFrame(c, d, TRUE)

ServeNext ==
    \/ AcceptFail
    \/ \E c \in Conns :
        \/ Accept(c)
        \/ ServeRead(c)
        \/ Lock(c)
        \/ BatchStep(c)
        \/ Unlock(c)
        \/ BatchReply(c, TRUE)

ServeSpec == ConcInit /\ [][ServeNext]_vars

\* ------------------------------------------------------------- properties
\* Worker c has just read frame number nread'[c].
ReadStep(c) == pc[c] = "read" /\ nread'[c] = nread[c] + 1

\* The frame read in this step is a request whose lowercased first token is cmd.
ReadCmd(c, cmd) ==
    /\ ReadStep(c)
    /\ req'[c].err = "nil"
    /\ ToLower(req'[c].toks[1]) = cmd

ExecAbort == Error(<<"EXECABORT Transaction discarded because of previous errors.">>)
NestedMulti == Error(<<"ERR MULTI calls can not be nested">>)
ExecWithoutMulti == Error(<<"ERR EXEC without MULTI">>)

\* The reply a request for a registered command gets outside a transaction.
StandaloneReply(toks) ==
    singleVal(handlers[ToLower(toks[1])], Request(ToLower(toks[1]), Tail(toks)))

\* C1 as stated: whenever a worker is about to read or has returned, every frame it
\* has read (QUIT included) has been answered by exactly one reply.
C1_EveryFrameAnswered ==
    \A c \in Conns : pc[c] \in {"read", "closed"} => nenc[c] = nread[c]

\* C1 amended: every frame a worker has read, other than QUIT, has been answered by
\* exactly one resp.Encode call before the next frame is read, and the call answers
\* the frame just read; QUIT is answered by none; a valid EXEC of an open
\* transaction is answered by one array with as many elements as the queue held.
C1_Replies ==
    \A c \in Conns :
        /\ pc[c] = "read" => nenc[c] = nread[c]
        /\ pc[c] = "read" /\ nread[c] > 0 => out[c].req = nread[c]
        /\ pc[c] \in {"lock", "batch", "reply", "stalled"} => nenc[c] = nread[c] - 1
        /\ pc[c] = "closed" =>
              nenc[c] = IF ret[c] = "nil" THEN nread[c] - 1 ELSE nread[c]

C1_ReplySteps ==
    \A c \in Conns :
        /\ nenc'[c] \in {nenc[c], nenc[c] + 1}
        /\ nenc'[c] = nenc[c] + 1 => out'[c].req = nread'[c]
        /\ pc[c] \in {"lock", "batch"} => tx'[c] = tx[c]
        /\ pc[c] = "reply" /\ pc'[c] = "read" =>
              /\ out'[c].val.kind = "Array"
              /\ Len(out'[c].val.elems) = Len(tx[c])
        /\ ReadStep(c) /\ pc'[c] = "read" => out'[c].val.kind # "Array"

C1_OneReplyPerRequest == [](C1_Replies) /\ [][C1_ReplySteps]_vars

C1_Witness ==
    \E c \in Conns :
        /\ pc[c] = "read"
        /\ nread[c] >= 4
        /\ nenc[c] = nread[c]
        /\ out[c].val.kind = "Array"
        /\ Len(out[c].val.elems) = 2

\* C2: the reply to a valid EXEC of an open transaction is one array with one
\* element per request for a registered command sent since the MULTI, in the order
\* sent, each equal to the reply the same request gets outside a transaction.
C2_BatchEqualsStandalone ==
    \A c \in Conns :
        pc[c] = "read" /\ out[c].req = nread[c] /\ out[c].val.kind = "Array" =>
            /\ Len(out[c].val.elems) = Len(sent[c])
            /\ \A i \in 1..Len(sent[c]) :
                  out[c].val.elems[i] = StandaloneReply(sent[c][i])

C2_Witness ==
    \E c \in Conns :
        /\ pc[c] = "read"
        /\ out[c].req = nread[c]
        /\ out[c].val.kind = "Array"
        /\ sent[c] = <<fGetK, fPingA>>
        /\ out[c].val.elems[1].kind = "Error"
        /\ out[c].val.elems[2] = GoString(<<"a">>)

\* A valid EXEC is read by worker c in this step.
ValidExecRead(c) == ReadCmd(c, cmdExec) /\ Len(req'[c].toks) = 1

\* C3: a valid EXEC read while the transaction is poisoned is answered EXECABORT,
\* invokes no handler, empties the queue and leaves the worker Idle at the top of
\* its loop.
C3_AbortStep ==
    \A c \in Conns :
        ValidExecRead(c) /\ inTx[c] /\ errTx[c] =>
            /\ out'[c].val = ExecAbort
            /\ out'[c].req = nread'[c]
            /\ ncalls'[c] = ncalls[c]
            /\ tx'[c] = <<>>
            /\ ~inTx'[c]
            /\ ~errTx'[c]
            /\ pc'[c] = "read"

C3_PoisonedExecAborts == [][C3_AbortStep]_vars

C3_Witness ==
    \E c \in Conns :
        /\ pc[c] = "read"
        /\ out[c].req = nread[c]
        /\ out[c].val = ExecAbort
        /\ Len(sent[c]) >= 2
        /\ ~inTx[c]
        /\ tx[c] = <<>>
        /\ ncalls[c].batch = 0

\* Worker a has started the first handler call of its batch and has not finished
\* the last one.
BetweenBatchCalls(a) ==
    \/ pc[a] = "batch" /\ idx[a] > 1 /\ idx[a] <= Len(tx[a])
    \/ pc[a] = "stalled" /\ idx[a] > 0

\* C4: no handler call of one connection's EXEC batch happens between the first
\* and the last handler call of another connection's batch.
C4_NoInterleavingStep ==
    \A a, b \in Conns :
        a # b /\ ncalls'[b].batch > ncalls[b].batch => ~BetweenBatchCalls(a)

C4_BatchesDoNotInterleave == [][C4_NoInterleavingStep]_vars

\* One worker is in the middle of its batch while the other waits to start its own.
C4_Witness ==
    \E a, b \in Conns :
        /\ a # b
        /\ pc[a] = "batch"
        /\ idx[a] = 2
        /\ Len(tx[a]) = 2
        /\ pc[b] = "lock"
        /\ Len(tx[b]) >= 1

\* The stalled handler of worker a was invoked from inside an EXEC batch.
StalledInBatch(a) == pc[a] = "stalled" /\ idx[a] > 0

\* C5 as stated: a stalled handler, invoked standalone or inside a batch, never
\* keeps another connection's valid EXEC from going ahead.
C5_StallBlocksNoOther ==
    \A a, b \in Conns :
        a # b /\ pc[a] = "stalled" /\ pc[b] = "lock" => ENABLED Lock(b)

\* C5 amended: while a handler invoked by worker a is stalled, every other worker
\* can read and answer each of its frames and finish a batch it has started; its
\* valid EXEC of an open transaction goes ahead when the handler stalled on a
\* standalone request, and waits for the mutex when it stalled inside a batch.
C5_StallBlocksOnlyExec ==
    \A a, b \in Conns :
        a # b /\ pc[a] = "stalled" =>
            /\ ~StalledInBatch(a) => mu # a
            /\ StalledInBatch(a) => mu = a
            /\ pc[b] = "read" =>
                  \A d \in ConcDecodes :
                      (inTx[b] /\ ~errTx[b] /\ Len(tx[b]) >= MaxQueue => ~NamesRegistered(d))
                          => ENABLED ReadFrame(b, d, TRUE)
            /\ pc[b] = "batch" => ENABLED (BatchStep(b) \/ Unlock(b))
            /\ pc[b] = "reply" => ENABLED BatchReply(b, TRUE)
            /\ pc[b] = "lock" => (ENABLED Lock(b) <=> ~StalledInBatch(a))

C5_Witness ==
    \E a, b \in Conns :
        /\ a # b
        /\ StalledInBatch(a)
        /\ pc[b] = "lock"
        /\ Len(tx[b]) >= 1

\* C6: once a resp.Encode call of worker c has failed, or HandleConn has returned,
\* the worker decodes no further frame and invokes no further handler, and a
\* failed write is followed by the return of HandleConn.
C6_FatalStep ==
    \A c \in Conns :
        /\ wfail[c] \/ ret[c] # "none" =>
              /\ nread'[c] = nread[c]
              /\ ncalls'[c] = ncalls[c]
        /\ wfail[c] /\ pc[c] = "read" /\ pc'[c] # pc[c] => pc'[c] = "closed"

C6_TransportFailureIsFatal == [][C6_FatalStep]_vars

\* C7 as stated: EXEC read in Idle, with any number of arguments, is answered
\* "EXEC without MULTI".
C7_AnyExecStep ==
    \A c \in Conns :
        ReadCmd(c, cmdExec) /\ ~inTx[c] =>
            /\ out'[c].val = ExecWithoutMulti
            /\ ncalls'[c] = ncalls[c]
            /\ ~inTx'[c]
            /\ tx'[c] = <<>>

C7_IdleExecAnyArgs == [][C7_AnyExecStep]_vars

\* C7 amended: EXEC read in Idle is answered "EXEC without MULTI" when it has no
\* argument and with the wrong-arguments error for 'exec' when it has any; either
\* way no handler is invoked and the worker stays Idle with an empty queue.
C7_ExecStep ==
    \A c \in Conns :
        ReadCmd(c, cmdExec) /\ ~inTx[c] =>
            /\ out'[c].req = nread'[c]
            /\ out'[c].val = IF Len(req'[c].toks) = 1
                             THEN ExecWithoutMulti
                             ELSE errWrongArgs(cmdExec)
            /\ ncalls'[c] = ncalls[c]
            /\ ~inTx'[c]
            /\ ~errTx'[c]
            /\ tx[c] = <<>>
            /\ tx'[c] = <<>>
            /\ pc'[c] = "read"

C7_IdleExec == [][C7_ExecStep]_vars

C7_Witness ==
    \E c \in Conns :
        /\ pc[c] = "read"
        /\ req[c] = Decoded(fExecX)
        /\ ~inTx[c]
        /\ out[c].req = nread[c]
        /\ out[c].val = errWrongArgs(cmdExec)

\* C8 as stated: every MULTI read inside a transaction is answered "MULTI calls
\* can not be nested".
C8_AnyMultiStep ==
    \A c \in Conns :
        ReadCmd(c, cmdMulti) /\ inTx[c] => out'[c].val = NestedMulti

C8_NestedMultiAnyArgs == [][C8_AnyMultiStep]_vars

\* C8 amended: a MULTI read inside a transaction is answered "MULTI calls can not
\* be nested" when it has no argument and with the wrong-arguments error for
\* 'multi' when it has any; either way the transaction stays active with its queue
\* as it was and is poisoned, and it stays poisoned until a valid EXEC, which is
\* answered EXECABORT and invokes no handler.
C8_MultiStep ==
    \A c \in Conns :
        /\ ReadCmd(c, cmdMulti) /\ inTx[c] =>
              /\ out'[c].req = nread'[c]
              /\ out'[c].val = IF Len(req'[c].toks) = 1
                               THEN NestedMulti
                               ELSE errWrongArgs(cmdMulti)
              /\ inTx'[c]
              /\ errTx'[c]
              /\ tx'[c] = tx[c]
              /\ ncalls'[c] = ncalls[c]
        /\ inTx[c] /\ errTx[c] =>
              /\ ncalls'[c] = ncalls[c]
              /\ tx'[c] = tx[c] \/ tx'[c] = <<>>
              /\ \/ inTx'[c] /\ errTx'[c]
                 \/ ValidExecRead(c) /\ out'[c].val = ExecAbort

C8_NestedMultiPoisons == [][C8_MultiStep]_vars

\* A transaction with a queued request, poisoned by a nested MULTI.
C8_Witness ==
    \E c \in Conns :
        /\ pc[c] = "read"
        /\ req[c] = Decoded(fMulti)
        /\ out[c].val = NestedMulti
        /\ inTx[c]
        /\ errTx[c]
        /\ Len(tx[c]) >= 1

\* C9: a malformed frame is answered with the generic protocol error, invokes no
\* handler, leaves the worker at the top of its loop with the connection open, and
\* leaves inTx, errTx and tx as they were.
C9_MalformedStep ==
    \A c \in Conns :
        ReadStep(c) /\ req'[c].err = "ErrInvalidRequest" =>
            /\ out'[c].req = nread'[c]
            /\ out'[c].val = Error(<<"ERR unknown command">>)
            /\ nenc'[c] = nenc[c] + 1
            /\ ncalls'[c] = ncalls[c]
            /\ pc'[c] = "read"
            /\ ret'[c] = "none"
            /\ inTx'[c] = inTx[c]
            /\ errTx'[c] = errTx[c]
            /\ tx'[c] = tx[c]

C9_MalformedFrame == [][C9_MalformedStep]_vars

\* A malformed frame read inside an open transaction that has a queued request.
C9_Witness ==
    \E c \in Conns :
        /\ pc[c] = "read"
        /\ req[c] = Malformed
        /\ out[c].req = nread[c]
        /\ inTx[c]
        /\ ~errTx[c]
        /\ Len(tx[c]) >= 1

\* C10: the non-transactional requests for registered commands read by a worker
\* have each invoked a handler exactly once; the last such request passed its
\* handler the lowercased name and the remaining tokens, and once the worker is
\* back at the top of its loop the reply has been handed to resp.Encode.
C10_StandaloneCalls ==
    \A c \in Conns :
        /\ ncalls[c].plain = nplain[c]
        /\ NamesRegistered(req[c]) /\ ~inTx[c] =>
              /\ lastCall[c] = Request(ToLower(req[c].toks[1]), Tail(req[c].toks))
              /\ pc[c] \in {"read", "stalled"}
              /\ pc[c] = "read" =>
                    /\ out[c].req = nread[c]
                    /\ out[c].val = StandaloneReply(req[c].toks)
        /\ pc[c] = "closed" /\ ret[c] = "nil" /\ nread[c] = nplain[c] + 1 =>
              ncalls[c] = [plain |-> nplain[c], batch |-> 0]

\* PING twice, then QUIT, as in TestServerStats.
C10_Witness ==
    \E c \in Conns :
        /\ pc[c] = "closed"
        /\ ret[c] = "nil"
        /\ nread[c] = 3
        /\ nplain[c] = 2
        /\ ncalls[c] = [plain |-> 2, batch |-> 0]
        /\ lastCall[c] = Request(<<"p","i","n","g">>, << <<"a">> >>)

\* C11: QUIT read in any transaction state ends the loop at once: HandleConn
\* returns nil and the connection is closed, no reply is handed to resp.Encode, no
\* handler is invoked and the queue is not executed; a closed worker reads no
\* further frame and invokes no handler.
C11_QuitStep ==
    \A c \in Conns :
        /\ ReadCmd(c, cmdQuit) =>
              /\ pc'[c] = "closed"
              /\ ret'[c] = "nil"
              /\ nenc'[c] = nenc[c]
              /\ out'[c] = out[c]
              /\ ncalls'[c] = ncalls[c]
        /\ pc[c] = "closed" =>
              /\ pc'[c] = "closed"
              /\ nread'[c] = nread[c]
              /\ nenc'[c] = nenc[c]
              /\ ncalls'[c] = ncalls[c]

C11_QuitEndsLoop == [][C11_QuitStep]_vars

\* QUIT read inside an open transaction with queued requests.
C11_Witness ==
    \E c \in Conns :
        /\ pc[c] = "closed"
        /\ ret[c] = "nil"
        /\ req[c] = Decoded(fQuit)
        /\ inTx[c]
        /\ ~errTx[c]
        /\ Len(tx[c]) = 2
        /\ ncalls[c] = [plain |-> 0, batch |-> 0]

\* What C12 says singleVal makes of the handler outcome res for command name.
Translated(res, name) ==
    IF res.err = NoError THEN res.v
    ELSE IF res.err = ErrWrongArgs
    THEN Error(<<"ERR wrong number of arguments for '">> \o name \o <<"' command">>)
    ELSE Error(<<"ERR ">> \o
               [i \in DOMAIN res.err.text |->
                   IF res.err.text[i] = "\r" \/ res.err.text[i] = "\n"
                   THEN " " ELSE res.err.text[i]])

NoCRLF(v) == \A i \in DOMAIN v.text : v.text[i] # "\r" /\ v.text[i] # "\n"

\* The handler outcome for request r.
Outcome(r) == HandlerFunc(handlers[r.Name], r)

\* C12: every reply made from a handler outcome, standalone or as a batch element,
\* is the value when there is no error, the command's wrong-arguments reply when
\* the error is ErrWrongArgs, and else "ERR " and the error text with every CR
\* and LF replaced by a space, which holds no CR and no LF.
C12_SingleVal ==
    \A c \in Conns :
        /\ NamesRegistered(req[c]) /\ ~inTx[c] /\ pc[c] = "read" =>
              /\ out[c].val = Translated(Outcome(lastCall[c]), lastCall[c].Name)
              /\ Outcome(lastCall[c]).err \notin {NoError, ErrWrongArgs} => NoCRLF(out[c].val)
        /\ pc[c] \in {"batch", "reply"} =>
              \A i \in DOMAIN txReplies[c] :
                  /\ txReplies[c][i] = Translated(Outcome(tx[c][i]), tx[c][i].Name)
                  /\ Outcome(tx[c][i]).err \notin {NoError, ErrWrongArgs}
                        => NoCRLF(txReplies[c][i])

\* A batch with a sanitized error text and an error that only has the text of
\* ErrWrongArgs.
C12_Witness ==
    \E c \in Conns :
        /\ pc[c] = "reply"
        /\ sent[c] = <<fErrCRLF, fErr>>
        /\ txReplies[c] = <<Error(<<"ERR ", "a", " ", " ", "b", " ">>),
                            Error(<<"ERR ", "wrong number of arguments">>)>>

\* A step that is a call of Handle.
HandleStep == handled'.n = handled.n + 1

\* The last Handle call stored a handler under a name that case-folds to cmd.
LastRegistered(cmd) == handled.n > 0 /\ ~handled.panic /\ ToLower(handled.name) = cmd

C13_HandleStep ==
    HandleStep =>
        IF handled'.name = <<>> \/ handled'.h = "nil"
        THEN handled'.panic /\ handlers' = handlers
        ELSE /\ ~handled'.panic
             /\ DOMAIN handlers' = DOMAIN handlers \cup {ToLower(handled'.name)}
             /\ handlers'[ToLower(handled'.name)] = handled'.h
             /\ \A k \in DOMAIN handlers : k # ToLower(handled'.name) => handlers'[k] = handlers[k]

C13_Handle == [][C13_HandleStep]_vars

\* C13: Handle stores the handler under the lowercased name and touches no other
\* key, so the last registration of a name in any letter case is the handler
\* that answers a request naming it in any letter case; with an empty name or a
\* nil handler Handle panics and the registry stays as it was.
C13_LastRegistrationWins ==
    /\ C13_Handle
    /\ [](\A k \in DOMAIN handlers : ToLower(k) = k /\ k # <<>> /\ handlers[k] # "nil")
    /\ [](\A c \in Conns :
            /\ pc[c] = "read" /\ req[c].err = "nil" /\ ~inTx[c]
            /\ LastRegistered(ToLower(req[c].toks[1]))
            => out[c].val = singleVal(handled.h,
                                      Request(ToLower(req[c].toks[1]), Tail(req[c].toks))))

\* PING was registered, registered again in lower case with another handler, and
\* a request spelled Ping is answered by the second handler.
C13_Witness ==
    /\ handled = [n |-> 2, name |-> <<"p","i","n","g">>, h |-> "hErr", panic |-> FALSE]
    /\ req["c1"] = Decoded(fPingA)
    /\ out["c1"].val = Error(<<"ERR ", "a">>)
    /\ DOMAIN handlers = {<<"p","i","n","g">>}

\* A step of the worker of connection c.
WorkerStep(c) ==
    pc[c] # "none" /\ (pc'[c] # pc[c] \/ nread'[c] # nread[c] \/ idx'[c] # idx[c])

C14_IsolationStep ==
    /\ \A c \in Conns :
          WorkerStep(c) =>
              /\ listening' = listening /\ serveRet' = serveRet
              /\ \A d \in Conns \ {c} :
                    /\ pc'[d] = pc[d] /\ ret'[d] = ret[d]
                    /\ inTx'[d] = inTx[d] /\ errTx'[d] = errTx[d] /\ tx'[d] = tx[d]
    /\ listening /\ ~listening' => serveRet' = "accepterr"
    /\ serveRet' # serveRet => listening /\ ~listening'
                               /\ \A c \in Conns : ~WorkerStep(c)

\* C14: every accepted connection gets its own worker and the accept loop is
\* ready for the next connection whatever state the workers are in; a step of
\* one worker, its return with any error included, changes neither another
\* connection's position and transaction state nor the accept loop; Serve
\* returns only by a failing Accept, with that error.
C14_ServeIsolation ==
    /\ [][C14_IsolationStep]_vars
    /\ [](\A c \in Conns : listening /\ pc[c] = "none" => ENABLED Accept(c))
    /\ [](listening <=> serveRet = "none")

\* One worker ended with an I/O error while the other is inside a transaction,
\* and Serve is still accepting.
C14_Witness ==
    /\ pc["c1"] = "closed" /\ ret["c1"] = "ioerr"
    /\ pc["c2"] = "read" /\ inTx["c2"] /\ ~errTx["c2"] /\ Len(tx["c2"]) = 1
    /\ listening
    /\ nread["c1"] = 2

UnknownCommand(cmd) == Error(<<"ERR unknown command '">> \o cmd \o <<"'">>)
Queued == SimpleString(<<"QUEUED">>)

C15_PoisonStep ==
    \A c \in Conns :
        /\ ReadStep(c) /\ inTx[c] /\ req'[c].err = "nil"
           /\ ~IsControl(ToLower(req'[c].toks[1]))
           /\ ToLower(req'[c].toks[1]) \notin DOMAIN handlers
           => /\ out'[c].val = UnknownCommand(ToLower(req'[c].toks[1]))
              /\ nenc'[c] = nenc[c] + 1
              /\ inTx'[c] /\ errTx'[c] /\ tx'[c] = tx[c]
              /\ ncalls'[c] = ncalls[c]
        /\ ReadStep(c) /\ inTx[c] /\ errTx[c]
           => /\ Len(tx'[c]) <= Len(tx[c])
              /\ inTx'[c] => errTx'[c] /\ tx'[c] = tx[c]
              /\ NamesRegistered(req'[c]) =>
                    /\ out'[c].val = Queued /\ nenc'[c] = nenc[c] + 1
                    /\ inTx'[c] /\ ncalls'[c] = ncalls[c]

\* C15: inside a transaction a request for an unregistered command gets the
\* unknown-command error, sets errTx and leaves tx as it is; while errTx is set
\* no request is appended to tx, and a request for a registered command is
\* still answered QUEUED.
C15_UnknownCommandPoisons == [][C15_PoisonStep]_vars

\* A registered command answered QUEUED in a poisoned transaction and not queued.
C15_Witness ==
    \E c \in Conns :
        /\ pc[c] = "read" /\ inTx[c] /\ errTx[c]
        /\ req[c] = Decoded(fPING) /\ out[c].val = Queued
        /\ Len(tx[c]) = 1 /\ Len(sent[c]) = 2 /\ nread[c] = 4

WrongArgs(cmd) == Error(<<"ERR wrong number of arguments for '">> \o cmd \o <<"' command">>)

C16_WrongArgsStep ==
    \A c \in Conns : \A cmd \in {cmdMulti, cmdExec} :
        ReadCmd(c, cmd) /\ Len(req'[c].toks) # 1 =>
            /\ out'[c].val = WrongArgs(cmd) /\ nenc'[c] = nenc[c] + 1
            /\ pc'[c] = "read" /\ mu' = mu /\ ncalls'[c] = ncalls[c]
            /\ inTx'[c] = inTx[c] /\ tx'[c] = tx[c]
            /\ inTx[c] => errTx'[c]
            /\ ~inTx[c] => errTx'[c] = errTx[c]

\* C16: MULTI or EXEC with arguments gets the wrong-arguments error of that
\* command, starts no transaction, runs no batch and ends no transaction: inTx
\* and tx stay as they are, and errTx is set exactly when inTx is.
C16_WrongArgs ==
    /\ [][C16_WrongArgsStep]_vars
    /\ [](\A c \in Conns : pc[c] = "read" /\ ~inTx[c] => ~errTx[c])

\* EXEC with an argument poisoned an open transaction whose queue stays.
C16_Witness ==
    \E c \in Conns :
        /\ pc[c] = "read" /\ inTx[c] /\ errTx[c]
        /\ req[c] = Decoded(fExecX) /\ out[c].val = WrongArgs(cmdExec)
        /\ Len(tx[c]) = 2 /\ Len(sent[c]) = 2 /\ nread[c] = 4

C17_BatchStep ==
    \A c \in Conns :
        /\ ReadStep(c) /\ inTx[c] => ncalls'[c] = ncalls[c] /\ lastCall'[c] = lastCall[c]
        /\ pc[c] = "lock" /\ pc'[c] # "lock" =>
              /\ pc'[c] = "batch" /\ idx'[c] = 1 /\ txReplies'[c] = <<>>
              /\ ncalls'[c] = ncalls[c] /\ tx'[c] = tx[c]
        /\ pc[c] = "batch" /\ pc'[c] = "batch" =>
              /\ idx'[c] = idx[c] + 1
              /\ ncalls'[c] = [ncalls[c] EXCEPT !.batch = @ + 1]
              /\ lastCall'[c] = tx[c][idx[c]]
              /\ Len(txReplies'[c]) = Len(txReplies[c]) + 1
              /\ \A i \in DOMAIN txReplies[c] : txReplies'[c][i] = txReplies[c][i]
              /\ tx'[c] = tx[c]
        /\ pc[c] = "batch" /\ pc'[c] = "reply" =>
              /\ idx[c] = Len(tx[c]) + 1 /\ Len(txReplies[c]) = Len(tx[c])
              /\ ncalls'[c] = ncalls[c]
        /\ pc[c] = "reply" /\ pc'[c] # "reply" =>
              /\ out'[c].val = Array(txReplies[c]) /\ ncalls'[c] = ncalls[c]

\* C17: nothing read inside a transaction invokes a handler; the batch of a valid
\* EXEC invokes the handlers of tx[1], tx[2], ... one per step, each once and in
\* that order, up to the last, and every element, an error reply included, is
\* what singleVal gives for its request and stays in the reply.
C17_BatchInOrder ==
    /\ [][C17_BatchStep]_vars
    /\ [](\A c \in Conns :
            pc[c] \in {"batch", "reply"} =>
                /\ idx[c] = Len(txReplies[c]) + 1
                /\ \A i \in DOMAIN txReplies[c] :
                      txReplies[c][i] = singleVal(handlers[tx[c][i].Name], tx[c][i]))

\* A batch whose first handler failed and whose second handler was still run.
C17_Witness ==
    \E c \in Conns :
        /\ pc[c] = "reply"
        /\ sent[c] = <<fGet, fPING>>
        /\ txReplies[c] = <<WrongArgs(<<"g","e","t">>), GoString(<<"PONG">>)>>
        /\ ncalls[c] = [plain |-> 0, batch |-> 2]
        /\ lastCall[c] = Request(<<"p","i","n","g">>, <<>>)

C18_EndStep ==
    \A c \in Conns :
        /\ ValidExecRead(c) /\ inTx[c] /\ errTx[c] =>
              pc'[c] = "read" /\ ~inTx'[c] /\ ~errTx'[c] /\ tx'[c] = <<>>
        /\ pc[c] = "reply" /\ pc'[c] # "reply" =>
              pc'[c] = "read" /\ ~inTx'[c] /\ ~errTx'[c] /\ tx'[c] = <<>>

\* C18: where the worker reads a request, errTx implies inTx and tx is empty
\* unless inTx; a valid EXEC of an active transaction, aborted or executed,
\* leaves the worker Idle with an empty queue, and the queue a batch runs holds
\* exactly the requests received since the MULTI that opened the transaction.
C18_StateInvariant ==
    /\ [][C18_EndStep]_vars
    /\ [](\A c \in Conns :
            /\ pc[c] = "read" => (errTx[c] => inTx[c]) /\ (~inTx[c] => tx[c] = <<>>)
            /\ pc[c] \in {"lock", "batch", "reply"} =>
                  /\ Len(tx[c]) = Len(sent[c])
                  /\ \A i \in DOMAIN tx[c] :
                        tx[c][i] = Request(ToLower(sent[c][i][1]), Tail(sent[c][i])))

\* A second transaction, opened after one that ran a request, executes empty.
C18_Witness ==
    \E c \in Conns :
        /\ pc[c] = "read" /\ ~inTx[c] /\ tx[c] = <<>>
        /\ req[c] = Decoded(fExec)
        /\ out[c] = [req |-> 5, val |-> Array(<<>>), ok |-> TRUE]
        /\ ncalls[c] = [plain |-> 0, batch |-> 1]

\* The frame d read in the present state is a valid EXEC of an open transaction.
OpensBatch(c, d) ==
    d.err = "nil" /\ ToLower(d.toks[1]) = cmdExec /\ Len(d.toks) = 1
    /\ inTx[c] /\ ~errTx[c]

C19_MutexStep ==
    /\ \A c \in Conns :
          /\ mu' = c /\ mu # c =>
                /\ mu = "free" /\ pc[c] = "lock" /\ pc'[c] = "batch"
                /\ OpensBatch(c, req[c])
          /\ mu = c /\ mu' # c => mu' = "free" /\ pc[c] = "batch" /\ pc'[c] = "reply"
          /\ ReadStep(c) =>
                /\ mu' = mu
                /\ pc'[c] = "lock" <=> OpensBatch(c, req'[c])
          /\ pc[c] = "reply" /\ pc'[c] # "reply" => mu' = mu /\ mu # c

\* C19: the mutex is taken only on the way into the batch of a valid EXEC of an
\* open transaction, is held exactly while that batch runs (or is stuck in a
\* handler) and is free of the worker when the batch reply is written; every
\* other frame is handled in the step that reads it, whoever holds the mutex.
C19_MutexOnlyAroundBatch ==
    /\ [][C19_MutexStep]_vars
    /\ [](\A c \in Conns :
            /\ mu = c <=> (pc[c] = "batch" \/ StalledInBatch(c))
            /\ pc[c] = "read" /\ TotalRead < MaxConcReqs =>
                  \A d \in ConcDecodes :
                      (inTx[c] /\ ~errTx[c] /\ Len(tx[c]) >= MaxQueue => ~NamesRegistered(d))
                      => ENABLED ReadFrame(c, d, TRUE))

\* One worker is inside its batch while the other has had an EXEC aborted.
C19_Witness ==
    \E a, b \in Conns :
        /\ a # b
        /\ mu = a /\ pc[a] = "batch" /\ idx[a] = 2
        /\ pc[b] = "read" /\ req[b] = Decoded(fExec) /\ out[b].val = ExecAbort

\* C20: every error reply the loop builds itself is free of CR and LF.
C20_NoCRLFInLoopErrors ==
    \A c \in Conns :
        (/\ pc[c] = "read"
         /\ out[c].val.kind = "Error"
         /\ req[c].err = "ErrInvalidRequest" \/ ~NamesRegistered(req[c]) \/ inTx[c])
        => NoCRLF(out[c].val)
====
